---- MODULE Spec2Model ----
(***************************************************************************)
(* Model of the concurrency-coordination core of Inviz/iterators.          *)
(*                                                                         *)
(*  - pubsub(bufferCapacity): the bounded channel (lib/pubsub.ts, revision *)
(*    with input/output, src/unnamed/part_003 lines 1-174).                *)
(*  - map(source, f, concurrency): src/unnamed/part_004.                   *)
(*                                                                         *)
(* JavaScript runs one synchronous block at a time; every action below is  *)
(* one such block (from one resumption to the next await).  Which ready    *)
(* continuation runs next depends on when promises settle, so it is left   *)
(* to the scheduler: the actions interleave freely.                        *)
(***************************************************************************)
EXTENDS Integers, Sequences, FiniteSets, TLC

(* ---------------- bounds ---------------- *)
MaxPub == 4      \* publish calls in the channel specification
MaxCons == 3     \* consume calls in the channel specification
MaxCap == 2      \* largest bufferCapacity / concurrency tried
MaxVal == 2      \* values are 1..MaxVal
MaxItems == 4    \* longest source given to map
MaxSrc == 3      \* sources given to concat
MaxLen == 2      \* items of one source given to concat
MaxTap == 2      \* largest finite inputConcurrency tried
MaxBranch == 2   \* branches given to dispatch
MaxFailSrc == 2  \* sources given to a concat whose sources may fail

Values == 1..MaxVal
Undefined == 0   \* JavaScript's undefined (no value)
PUMP == 0        \* the waiter registered by input() itself (part_003:133)
SOURCE == 0 - 1  \* names the source iterator as the origin of an error

Larger(a, b) == IF a > b THEN a ELSE b
MaxSubs == Larger(Larger(MaxPub, MaxItems), MaxSrc * MaxLen)
Subs == 1..MaxSubs
Conss == 1..Larger(MaxCons, MaxSubs + 1)
Infinity == MaxSubs + 1   \* a limit no count of the model reaches
Absent == 0               \* an omitted (undefined) argument
Branches == 1..MaxBranch

VARIABLES
  bufferCapacity,   \* pubsub argument
  producing,        \* Set<Promise>: submissions in flight (by handle)
  consuming,        \* Set<resolve>: waiting consumers, insertion order
  buffer,           \* Set<thunk>: settled values nobody asked for yet, insertion order
  waitingProducers, \* Set<resolve>: producers suspended in wait(), insertion order
  woken,            \* waiters whose resolve() was called and whose continuation has not run yet
  isDone,           \* set by onReadComplete
  readError,        \* the readError promise is rejected
  firstError,       \* whose error rejected readError: a submission, SOURCE, or 0 if none
  bufferAtError,    \* history: the ready buffer at the moment readError was rejected
  pstate,           \* per submission: idle, waiting, pending, buffered, delivered, rejected, threw
  published,        \* the publish calls whose returned promise is resolved
  value,            \* per submission: the value it settles to
  cstate,           \* per consume call: idle, waiting, resolved
  cgot,             \* per consume call: the submission whose value resolved it
  delivered,        \* history: <<consumer, submission>> in the order consume calls were resolved
  settled,          \* history: submissions in the order their settle callback ran
  seqConsumer,      \* history: no consume call was made while another one was still waiting
  source,           \* map: the items of the source
  pidx,             \* map: number of items pulled from the source
  ppc,              \* map: position of input() (the pump)
  gpc,              \* map: position of the output generator
  gcur,             \* map: the consume call the generator is waiting on (valueReady)
  winner,           \* map: what settled Promise.race first
  out,              \* map: the submissions whose values were yielded to the consumer of map, in order
  inputConcurrency, \* concat: the tap limit, Absent if omitted
  outputConcurrency, \* concat: the buffer limit it was given, Absent if omitted
  iterators,        \* concat: the sources, each given by its number of items
  inputsExhausted,  \* concat: the intake loop has ended
  counters,         \* concat: per source, items published and not yet taken by the output loop
  active,           \* concat: sources whose readIterator has not ended
  onNextIterator,   \* concat: undefined, pending (the intake awaits it) or resolved
  ipc,              \* concat: position of the intake loop
  tapped,           \* concat: number of sources the intake loop took from the outer sequence
  rpc,              \* concat: per source, position of its readIterator
  rpos,             \* concat: per source, number of items it has given
  settleQueue,      \* concat: admitted submissions whose settle callback is queued, in order
  tpc,              \* writer: position of the caller of transform()
  tret,             \* writer: what the transform() calls returned, in order (Absent for undefined)
  splitter,         \* dispatch: per item value, the tuple of parts the splitter returns
  dpc,              \* dispatch: per item, position of its dispatcher
  bbuffer,          \* dispatch: per branch, the parts admitted to its channel and not yet received
  bwait,            \* dispatch: per branch, the writes suspended in wait(), in order
  bwoken,           \* dispatch: per branch, the suspended writes that were notified
  bpc,              \* dispatch: per branch, position of its sub-pipeline
  bdone,            \* dispatch: per branch, end() was called
  received,         \* dispatch: per branch, the parts its sub-pipeline received, in order
  fin               \* dispatch: position of the shutdown callback of the router

chanVars == <<bufferCapacity, producing, consuming, buffer, waitingProducers, woken,
              isDone, readError, firstError, bufferAtError, pstate, published, value, cstate, cgot,
              delivered, settled, seqConsumer>>
mapVars == <<source, pidx, ppc, gpc, gcur, winner, out>>
catVars == <<inputConcurrency, outputConcurrency, iterators, inputsExhausted, counters, active, onNextIterator,
             ipc, tapped, rpc, rpos, settleQueue>>
extVars == <<tpc, tret, splitter, dpc, bbuffer, bwait, bwoken, bpc, bdone, received, fin>>
vars == <<bufferCapacity, producing, consuming, buffer, waitingProducers, woken,
          isDone, readError, firstError, bufferAtError, pstate, published, value, cstate, cgot,
          delivered, settled, seqConsumer, source, pidx, ppc, gpc, gcur, winner, out,
          inputConcurrency, outputConcurrency, iterators, inputsExhausted, counters, active,
          onNextIterator,
          ipc, tapped, rpc, rpos, settleQueue,
          tpc, tret, splitter, dpc, bbuffer, bwait, bwoken, bpc, bdone, received, fin>>

(* ---------------- helpers ---------------- *)
Size(s) == IF DOMAIN s = {} THEN 0 ELSE Len(s)
Range(s) == {s[i] : i \in DOMAIN s}

\* producing.size >= bufferCapacity (part_003:39 and :132)
IsFullOff(n, cap) == n > cap
IsFull(n, cap) == n >= cap

\* notify: set.entries().next().value[0], the oldest entry (part_003:17)
FirstNewest(s) == s[Len(s)]
First(s) == Head(s)

\* notify: set.delete(callback) (part_003:19)
RestKeep(s) == s
Rest(s) == Tail(s)

\* Set.add keeps insertion order; callbacks are fresh closures, never already present
AddFront(s, x) == <<x>> \o s
Add(s, x) == Append(s, x)

\* the in-flight set after a value settled with no consumer waiting: the
\* submission stays in producing until its thunk is called (part_003:47-56)
ProducingAfterBufferingFreed(prod, p) == prod \ {p}
ProducingAfterBuffering(prod, p) == prod

\* publish is an async function that ends after addProducer(promise): its own
\* promise resolves there; it never awaits the inner promise (part_003:73-74)
PublishReturnsNot(set, p) == set
PublishReturns(set, p) == set \cup {p}

\* the transform used by the map specification (map.test.ts:19, x => x * 2)
F(x) == 2 * x

(* ---------------- the channel ---------------- *)

\* notify(waitingProducers) (part_003:53, :64)
NotifyProducer ==
  IF waitingProducers # <<>>
  THEN /\ woken' = woken \cup {First(waitingProducers)}
       /\ waitingProducers' = Rest(waitingProducers)
  ELSE UNCHANGED <<woken, waitingProducers>>

\* onReadError(e): reject the readError promise; a promise rejects once (part_003:146-149)
OnReadError(who) ==
  /\ readError' = TRUE
  /\ firstError' = IF readError THEN firstError ELSE who
  /\ bufferAtError' = IF readError THEN bufferAtError ELSE buffer

\* publish(value), up to its first suspension (part_003:37-74, without the settle callback)
PublishCall(p, v) ==
  /\ value' = [value EXCEPT ![p] = v]
  /\ IF IsFull(Cardinality(producing), bufferCapacity)
     THEN /\ waitingProducers' = Add(waitingProducers, p)       \* await wait()
          /\ pstate' = [pstate EXCEPT ![p] = "waiting"]
          /\ UNCHANGED <<producing, published>>
     ELSE /\ producing' = producing \cup {p}                      \* addProducer(promise)
          /\ pstate' = [pstate EXCEPT ![p] = "pending"]
          /\ published' = PublishReturns(published, p)
          /\ UNCHANGED waitingProducers

\* consume() (part_003:86-94); the thunk it may call is part_003:48-56
ConsumeCall(c) ==
  /\ seqConsumer' = (seqConsumer /\ consuming = <<>>)
  /\ IF buffer # <<>>
     THEN LET p == First(buffer) IN
          /\ buffer' = Rest(buffer)
          /\ producing' = producing \ {p}                         \* removeProducer(promise)
          /\ pstate' = [pstate EXCEPT ![p] = "delivered"]
          /\ NotifyProducer
          /\ IF value[p] # Undefined
             THEN /\ cstate' = [cstate EXCEPT ![c] = "resolved"]
                  /\ cgot' = [cgot EXCEPT ![c] = p]
                  /\ delivered' = Append(delivered, <<c, p>>)
                  /\ UNCHANGED consuming
             ELSE /\ consuming' = Add(consuming, c)
                  /\ cstate' = [cstate EXCEPT ![c] = "waiting"]
                  /\ UNCHANGED <<cgot, delivered>>
     ELSE /\ consuming' = Add(consuming, c)
          /\ cstate' = [cstate EXCEPT ![c] = "waiting"]
          /\ UNCHANGED <<buffer, producing, pstate, woken, waitingProducers, cgot, delivered>>

\* the callback of Promise.resolve(value).then(...) (part_003:44-67): the value settled
SettleCall(p) ==
  /\ pstate[p] = "pending"
  /\ p \in producing
  /\ settled' = Append(settled, p)
  /\ IF Size(consuming) = 0
     THEN /\ buffer' = Add(buffer, p)
          /\ producing' = ProducingAfterBuffering(producing, p)
          /\ pstate' = [pstate EXCEPT ![p] = "buffered"]
          /\ UNCHANGED <<consuming, cstate, cgot, delivered, woken, waitingProducers>>
     ELSE LET c == First(consuming) IN
          /\ producing' = producing \ {p}
          /\ consuming' = Rest(consuming)
          /\ cstate' = [cstate EXCEPT ![c] = "resolved"]
          /\ cgot' = [cgot EXCEPT ![c] = p]
          /\ delivered' = Append(delivered, <<c, p>>)
          /\ pstate' = [pstate EXCEPT ![p] = "delivered"]
          /\ NotifyProducer
          /\ UNCHANGED buffer

\* promise.catch (part_003:69-72): the value rejected
RejectCall(p) ==
  /\ pstate[p] = "pending"
  /\ p \in producing
  /\ OnReadError(p)
  /\ producing' = producing \ {p}
  /\ pstate' = [pstate EXCEPT ![p] = "rejected"]

\* publish resumes after await wait() (part_003:40-44, :73): no second look at producing.size
ResumeCall(p) ==
  /\ pstate[p] = "waiting"
  /\ p \in woken
  /\ woken' = woken \ {p}
  /\ producing' = producing \cup {p}
  /\ pstate' = [pstate EXCEPT ![p] = "pending"]
  /\ published' = PublishReturns(published, p)

(* ---------------- specification of the channel alone ---------------- *)
\* a freshly created channel (part_003:8-12, :144-158)
EmptyChan ==
  /\ producing = {}
  /\ consuming = <<>>
  /\ buffer = <<>>
  /\ waitingProducers = <<>>
  /\ woken = {}
  /\ isDone = FALSE
  /\ readError = FALSE
  /\ firstError = 0
  /\ bufferAtError = <<>>
  /\ pstate = [p \in Subs |-> "idle"]
  /\ published = {}
  /\ value = [p \in Subs |-> Undefined]
  /\ cstate = [c \in Conss |-> "idle"]
  /\ cgot = [c \in Conss |-> 0]
  /\ delivered = <<>>
  /\ settled = <<>>
  /\ seqConsumer = TRUE
  /\ pidx = 0
  /\ gcur = 0
  /\ winner = "none"
  /\ out = <<>>

InitChan ==
  /\ bufferCapacity \in 1..MaxCap
  /\ EmptyChan

\* no multiplexer is running
IdleConcat ==
  /\ inputConcurrency = Absent
  /\ outputConcurrency = Absent
  /\ iterators = <<>>
  /\ inputsExhausted = FALSE
  /\ counters = [s \in 1..MaxSrc |-> 0]
  /\ active = {}
  /\ onNextIterator = "undefined"
  /\ ipc = "none"
  /\ tapped = 0
  /\ rpc = [s \in 1..MaxSrc |-> "idle"]
  /\ rpos = [s \in 1..MaxSrc |-> 0]
  /\ settleQueue = <<>>

\* no transform() caller and no router
IdleExt ==
  /\ tpc = "none"
  /\ tret = <<>>
  /\ splitter = [v \in Values |-> <<>>]
  /\ dpc = [p \in Subs |-> "idle"]
  /\ bbuffer = [b \in Branches |-> <<>>]
  /\ bwait = [b \in Branches |-> <<>>]
  /\ bwoken = [b \in Branches |-> {}]
  /\ bpc = [b \in Branches |-> "none"]
  /\ bdone = [b \in Branches |-> FALSE]
  /\ received = [b \in Branches |-> <<>>]
  /\ fin = "none"

Init ==
  /\ InitChan
  /\ IdleConcat
  /\ IdleExt
  /\ source = <<>>
  /\ ppc = "none"
  /\ gpc = "none"

\* a producer calls publish(v); calls are numbered in the order they are made
Publish(p) ==
  /\ UNCHANGED extVars
  /\ UNCHANGED catVars
  /\ p <= MaxPub
  /\ pstate[p] = "idle"
  /\ \A q \in 1..(p - 1) : pstate[q] # "idle"
  /\ \E v \in Values : PublishCall(p, v)
  /\ UNCHANGED <<bufferCapacity, consuming, buffer, woken, isDone, readError, firstError,
                 bufferAtError, cstate, cgot, delivered, settled, seqConsumer>>
  /\ UNCHANGED mapVars

\* a consumer calls consume(); calls are numbered in the order they are made
Consume(c) ==
  /\ UNCHANGED extVars
  /\ UNCHANGED catVars
  /\ UNCHANGED published
  /\ c <= MaxCons
  /\ cstate[c] = "idle"
  /\ \A d \in 1..(c - 1) : cstate[d] # "idle"
  /\ ConsumeCall(c)
  /\ UNCHANGED <<bufferCapacity, isDone, readError, firstError, bufferAtError, value, settled>>
  /\ UNCHANGED mapVars

\* the value of an admitted submission settles successfully
Settle(p) ==
  /\ UNCHANGED extVars
  /\ UNCHANGED catVars
  /\ UNCHANGED published
  /\ SettleCall(p)
  /\ UNCHANGED <<bufferCapacity, isDone, readError, firstError, bufferAtError, value, seqConsumer>>
  /\ UNCHANGED mapVars

\* the value of an admitted submission rejects; a Promise.race of output() that
\* nothing has settled yet is settled by the rejection of readError (part_003:107)
Reject(p) ==
  /\ UNCHANGED extVars
  /\ UNCHANGED catVars
  /\ UNCHANGED published
  /\ RejectCall(p)
  /\ winner' = IF gpc = "racing" /\ winner = "none" THEN "error" ELSE winner
  /\ UNCHANGED <<bufferCapacity, consuming, buffer, waitingProducers, woken, isDone,
                 value, cstate, cgot, delivered, settled, seqConsumer>>
  /\ UNCHANGED <<source, pidx, ppc, gpc, gcur, out>>

\* a suspended publish call continues after its wait() was resolved
Resume(p) ==
  /\ UNCHANGED extVars
  /\ UNCHANGED catVars
  /\ ResumeCall(p)
  /\ UNCHANGED <<bufferCapacity, consuming, buffer, waitingProducers, isDone, readError,
                 firstError, bufferAtError, value, cstate, cgot, delivered, settled, seqConsumer>>
  /\ UNCHANGED mapVars

Next ==
  \/ \E p \in Subs : Publish(p)
  \/ \E c \in Conss : Consume(c)
  \/ \E p \in Subs : Settle(p)
  \/ \E p \in Subs : Reject(p)
  \/ \E p \in Subs : Resume(p)

Spec == Init /\ [][Next]_vars

(* ---------------- map(source, f, concurrency) ---------------- *)

\* the variables consume() may change
consVars == <<seqConsumer, buffer, producing, pstate, woken, waitingProducers,
              cstate, cgot, delivered, consuming>>

\* all sources of at most MaxItems items
Sources == UNION {[1..n -> Values] : n \in 0..MaxItems}

\* map picks _mapConcurrently only when concurrency > 1 (part_004:65)
UsesChannelAlways(concurrency) == concurrency >= 1
UsesChannel(concurrency) == concurrency > 1

InitMap ==
  /\ InitChan
  /\ IdleConcat
  /\ IdleExt
  /\ source \in Sources
  /\ ppc = "init"
  /\ gpc = "init"

\* onReadComplete() (part_003:154-160): sets isDone and resolves readComplete,
\* which settles a Promise.race of output() that nothing has settled yet
OnReadComplete(w) ==
  /\ isDone' = TRUE
  /\ winner' = IF gpc = "racing" /\ w = "none" THEN "complete" ELSE w

\* top of the loop of output() (part_003:105-107): valueReady = consume(), then
\* await Promise.race([readComplete, readError, valueReady]).  readComplete is
\* always a fresh pending promise here; if readError is already rejected its
\* reaction is queued first and it settles the race.
LoopTop ==
  /\ gcur < Cardinality(Conss)
  /\ ConsumeCall(gcur + 1)
  /\ gcur' = gcur + 1
  /\ winner' = IF readError THEN "error" ELSE "none"
  /\ gpc' = "racing"

\* bottom of the loop of output() (part_003:115-117), followed by the next turn
LoopCheck ==
  IF producing = {} /\ isDone
  THEN /\ gpc' = "done"
       /\ UNCHANGED <<gcur, winner>>
       /\ UNCHANGED consVars
  ELSE LoopTop

\* first next() on the result of _mapConcurrently (part_004:38-40): output()
\* calls onStart, input() runs up to its first await (part_003:129-131), then
\* the loop is entered
GenStart ==
  /\ UNCHANGED extVars
  /\ UNCHANGED catVars
  /\ UNCHANGED published
  /\ gpc = "init"
  /\ UsesChannel(bufferCapacity)
  /\ ppc' = "pulling"
  /\ LoopTop
  /\ UNCHANGED <<bufferCapacity, isDone, readError, firstError, bufferAtError, value, settled,
                 source, pidx, out>>

\* the promise returned by consume() fulfils after the value was handed to it
\* and settles the race, unless something else settled it before
ValueReady ==
  /\ UNCHANGED extVars
  /\ UNCHANGED catVars
  /\ gpc = "racing"
  /\ winner = "none"
  /\ cstate[gcur] = "resolved"
  /\ winner' = "value"
  /\ UNCHANGED chanVars
  /\ UNCHANGED <<source, pidx, ppc, gpc, gcur, out>>

\* await Promise.race(...) throws: readError won (part_003:107)
GenThrow ==
  /\ UNCHANGED extVars
  /\ UNCHANGED catVars
  /\ gpc = "racing"
  /\ winner = "error"
  /\ gpc' = "threw"
  /\ UNCHANGED chanVars
  /\ UNCHANGED <<source, pidx, ppc, gcur, winner, out>>

\* the race produced a value that is not undefined: yield result (part_003:113)
GenYield ==
  /\ UNCHANGED extVars
  /\ UNCHANGED catVars
  /\ gpc = "racing"
  /\ winner = "value"
  /\ value[cgot[gcur]] # Undefined
  /\ out' = Append(out, cgot[gcur])
  /\ gpc' = "yielded"
  /\ UNCHANGED chanVars
  /\ UNCHANGED <<source, pidx, ppc, gcur, winner>>

\* the race produced undefined (readComplete won, or the value is undefined):
\* yield valueReady if something is in flight, then the end-of-loop test
\* (part_003:108-117)
GenNoResult ==
  /\ UNCHANGED extVars
  /\ UNCHANGED catVars
  /\ UNCHANGED published
  /\ gpc = "racing"
  /\ \/ winner = "complete"
     \/ winner = "value" /\ value[cgot[gcur]] = Undefined
  /\ IF producing # {}
     THEN /\ gpc' = "yieldWait"
          /\ UNCHANGED <<gcur, winner>>
          /\ UNCHANGED consVars
     ELSE LoopCheck
  /\ UNCHANGED <<bufferCapacity, isDone, readError, firstError, bufferAtError, value, settled,
                 source, pidx, ppc, out>>

\* yield valueReady (part_003:110): the generator awaits valueReady alone
GenYieldReady ==
  /\ UNCHANGED extVars
  /\ UNCHANGED catVars
  /\ gpc = "yieldWait"
  /\ cstate[gcur] = "resolved"
  /\ out' = Append(out, cgot[gcur])
  /\ gpc' = "yielded"
  /\ UNCHANGED chanVars
  /\ UNCHANGED <<source, pidx, ppc, gcur, winner>>

\* the consumer of map asks for the next value: the generator continues after
\* its yield (part_003:115-117, then :106-107)
GenNext ==
  /\ UNCHANGED extVars
  /\ UNCHANGED catVars
  /\ UNCHANGED published
  /\ gpc = "yielded"
  /\ gcur > 0                      \* the generator is output(), not _map
  /\ LoopCheck
  /\ UNCHANGED <<bufferCapacity, isDone, readError, firstError, bufferAtError, value, settled,
                 source, pidx, ppc, out>>

\* publish(transform(item, i++, iterator)) in input() (part_003:135): the
\* transform either returns (a value or a promise) or throws; a throw lands in
\* the catch and finally of input() (part_003:137-141)
Transform(item) ==
  \/ /\ PublishCall(item, F(source[item]))
     /\ ppc' = "pulling"
     /\ UNCHANGED <<isDone, readError, firstError, bufferAtError, winner>>
  \/ /\ pstate' = [pstate EXCEPT ![item] = "threw"]
     /\ OnReadError(item)
     /\ OnReadComplete(IF gpc = "racing" /\ winner = "none" THEN "error" ELSE winner)
     /\ ppc' = "done"
     /\ UNCHANGED <<value, producing, waitingProducers, published>>

\* input() receives the next item of the source (part_003:131-135)
PumpPull ==
  /\ UNCHANGED extVars
  /\ UNCHANGED catVars
  /\ ppc = "pulling"
  /\ pidx < Len(source)
  /\ pidx' = pidx + 1
  /\ IF IsFull(Cardinality(producing), bufferCapacity)
     THEN /\ waitingProducers' = Add(waitingProducers, PUMP)       \* await wait()
          /\ ppc' = "waiting"
          /\ UNCHANGED <<value, producing, pstate, published, isDone, readError, firstError,
                         bufferAtError, winner>>
     ELSE Transform(pidx + 1)
  /\ UNCHANGED <<bufferCapacity, consuming, buffer, woken, cstate, cgot, delivered, settled,
                 seqConsumer, source, gpc, gcur, out>>

\* input() continues after its wait() was resolved (part_003:133-135)
PumpResume ==
  /\ UNCHANGED extVars
  /\ UNCHANGED catVars
  /\ ppc = "waiting"
  /\ PUMP \in woken
  /\ woken' = woken \ {PUMP}
  /\ Transform(pidx)
  /\ UNCHANGED <<bufferCapacity, consuming, buffer, cstate, cgot, delivered, settled,
                 seqConsumer, source, pidx, gpc, gcur, out>>

\* the source is exhausted: finally of input() (part_003:139-141)
PumpExhaust ==
  /\ UNCHANGED extVars
  /\ UNCHANGED catVars
  /\ UNCHANGED published
  /\ ppc = "pulling"
  /\ pidx = Len(source)
  /\ OnReadComplete(winner)
  /\ ppc' = "done"
  /\ UNCHANGED <<bufferCapacity, producing, consuming, buffer, waitingProducers, woken,
                 readError, firstError, bufferAtError, pstate, value, cstate, cgot,
                 delivered, settled, seqConsumer>>
  /\ UNCHANGED <<source, pidx, gpc, gcur, out>>

\* the source fails instead of giving its next item: catch and finally of
\* input() (part_003:137-141)
PumpSourceFail ==
  /\ UNCHANGED extVars
  /\ UNCHANGED catVars
  /\ UNCHANGED published
  /\ ppc = "pulling"
  /\ OnReadError(SOURCE)
  /\ OnReadComplete(IF gpc = "racing" /\ winner = "none" THEN "error" ELSE winner)
  /\ ppc' = "done"
  /\ UNCHANGED <<bufferCapacity, producing, consuming, buffer, waitingProducers, woken,
                 pstate, value, cstate, cgot, delivered, settled, seqConsumer>>
  /\ UNCHANGED <<source, pidx, gpc, gcur, out>>

\* _map (part_004:13-20): next() pulls one item and calls the transform, which
\* returns or throws; an exhausted source ends the generator, a failing one
\* makes it throw
SeqNext ==
  /\ UNCHANGED extVars
  /\ UNCHANGED catVars
  /\ UNCHANGED published
  /\ gpc \in {"init", "yielded"}
  /\ ~UsesChannel(bufferCapacity)
  /\ \/ /\ pidx < Len(source)
        /\ pidx' = pidx + 1
        /\ \/ /\ pstate' = [pstate EXCEPT ![pidx + 1] = "pending"]
              /\ value' = [value EXCEPT ![pidx + 1] = F(source[pidx + 1])]
              /\ gpc' = "seqAwait"
              /\ UNCHANGED <<readError, firstError, bufferAtError>>
           \/ /\ pstate' = [pstate EXCEPT ![pidx + 1] = "threw"]
              /\ OnReadError(pidx + 1)
              /\ gpc' = "threw"
              /\ UNCHANGED value
     \/ /\ pidx = Len(source)
        /\ gpc' = "done"
        /\ UNCHANGED <<pidx, pstate, value, readError, firstError, bufferAtError>>
     \/ /\ OnReadError(SOURCE)
        /\ gpc' = "threw"
        /\ UNCHANGED <<pidx, pstate, value>>
  /\ UNCHANGED <<bufferCapacity, producing, consuming, buffer, waitingProducers, woken, isDone,
                 cstate, cgot, delivered, settled, seqConsumer, source, ppc, gcur, winner, out>>

\* _map: yield await iteratorFn(value, input) (part_004:18), the promise fulfils
SeqSettle ==
  /\ UNCHANGED extVars
  /\ UNCHANGED catVars
  /\ UNCHANGED published
  /\ gpc = "seqAwait"
  /\ pstate[pidx] = "pending"
  /\ pstate' = [pstate EXCEPT ![pidx] = "delivered"]
  /\ settled' = Append(settled, pidx)
  /\ out' = Append(out, pidx)
  /\ gpc' = "yielded"
  /\ UNCHANGED <<bufferCapacity, producing, consuming, buffer, waitingProducers, woken, isDone,
                 readError, firstError, bufferAtError, value, cstate, cgot, delivered,
                 seqConsumer, source, pidx, ppc, gcur, winner>>

\* _map: yield await iteratorFn(value, input) (part_004:18), the promise rejects
SeqReject ==
  /\ UNCHANGED extVars
  /\ UNCHANGED catVars
  /\ UNCHANGED published
  /\ gpc = "seqAwait"
  /\ pstate[pidx] = "pending"
  /\ pstate' = [pstate EXCEPT ![pidx] = "rejected"]
  /\ OnReadError(pidx)
  /\ gpc' = "threw"
  /\ UNCHANGED <<bufferCapacity, producing, consuming, buffer, waitingProducers, woken, isDone,
                 value, cstate, cgot, delivered, settled,
                 seqConsumer, source, pidx, ppc, gcur, winner, out>>

NextMap ==
  \/ GenStart
  \/ ValueReady
  \/ GenThrow
  \/ GenYield
  \/ GenNoResult
  \/ GenYieldReady
  \/ GenNext
  \/ PumpPull
  \/ PumpResume
  \/ PumpExhaust
  \/ PumpSourceFail
  \/ \E p \in Subs : Settle(p)
  \/ \E p \in Subs : Reject(p)
  \/ SeqNext
  \/ SeqSettle
  \/ SeqReject

SpecMap == InitMap /\ [][NextMap]_vars

(* ---------------- filter(source, test, concurrency) ---------------- *)
(* filter.ts always takes the channel (_filterConcurrently, capacity          *)
(* `concurrency`, 1 when omitted): the pump submits, per item, the promise of *)
(* an async function that resolves to the item when the predicate keeps it   *)
(* and to undefined when the predicate returns false or null.                *)

\* the predicate of the filter specification keeps the even items (x => x % 2 === 0)
Test(x) == x % 2 = 0

\* what the function given to input() resolves to (filter.ts:44-49)
FilterResult(x) == IF Test(x) THEN x ELSE Undefined

\* first next() on the result of _filterConcurrently (filter.ts:42-51):
\* output() calls onStart, input() runs up to its first await, then the loop
\* is entered (part_003:104-107, :129-131)
FilterStart ==
  /\ UNCHANGED extVars
  /\ UNCHANGED catVars
  /\ UNCHANGED published
  /\ gpc = "init"
  /\ ppc' = "pulling"
  /\ LoopTop
  /\ UNCHANGED <<bufferCapacity, isDone, readError, firstError, bufferAtError, value, settled,
                 source, pidx, out>>

\* publish(transform(item, i++, iterator)) in input() (part_003:135) with the
\* function of filter.ts:44-49, which is async and does not throw
FilterTransform(item) ==
  /\ PublishCall(item, FilterResult(source[item]))
  /\ ppc' = "pulling"

\* input() receives the next item of the source (part_003:131-135)
FilterPull ==
  /\ UNCHANGED extVars
  /\ UNCHANGED catVars
  /\ ppc = "pulling"
  /\ pidx < Len(source)
  /\ pidx' = pidx + 1
  /\ IF IsFull(Cardinality(producing), bufferCapacity)
     THEN /\ waitingProducers' = Add(waitingProducers, PUMP)       \* await wait()
          /\ ppc' = "waiting"
          /\ UNCHANGED <<value, producing, pstate, published>>
     ELSE FilterTransform(pidx + 1)
  /\ UNCHANGED <<bufferCapacity, consuming, buffer, woken, isDone, readError, firstError,
                 bufferAtError, cstate, cgot, delivered, settled, seqConsumer>>
  /\ UNCHANGED <<source, gpc, gcur, winner, out>>

\* input() continues after its wait() was resolved (part_003:133-135)
FilterResume ==
  /\ UNCHANGED extVars
  /\ UNCHANGED catVars
  /\ ppc = "waiting"
  /\ PUMP \in woken
  /\ woken' = woken \ {PUMP}
  /\ FilterTransform(pidx)
  /\ UNCHANGED <<bufferCapacity, consuming, buffer, isDone, readError, firstError,
                 bufferAtError, cstate, cgot, delivered, settled, seqConsumer>>
  /\ UNCHANGED <<source, pidx, gpc, gcur, winner, out>>

NextFilter ==
  \/ FilterStart
  \/ FilterPull
  \/ FilterResume
  \/ PumpExhaust
  \/ ValueReady
  \/ GenYield
  \/ GenNoResult
  \/ GenYieldReady
  \/ GenNext
  \/ \E p \in Subs : Settle(p)

SpecFilter == InitMap /\ [][NextFilter]_vars

(* ---------------- writer(callback, concurrency) ---------------- *)
(* The push adapter of lib/writer.ts with no callback: its iterator is the   *)
(* output() generator of its own channel, write is publish and end is        *)
(* onReadComplete.                                                            *)

InitWriter ==
  /\ InitChan
  /\ IdleConcat
  /\ IdleExt
  /\ source = <<>>
  /\ ppc = "none"
  /\ gpc = "init"

\* writer.write(value) (writer.ts:42); nothing is written after end()
Write(p) ==
  /\ ~isDone
  /\ Publish(p)

\* writer.end() (writer.ts:43-46): onReadComplete()
End ==
  /\ UNCHANGED extVars
  /\ UNCHANGED catVars
  /\ ~isDone
  /\ OnReadComplete(winner)
  /\ UNCHANGED <<bufferCapacity, producing, consuming, buffer, waitingProducers, woken,
                 readError, firstError, bufferAtError, pstate, published, value, cstate, cgot,
                 delivered, settled, seqConsumer>>
  /\ UNCHANGED <<source, pidx, ppc, gpc, gcur, out>>

\* first next() on the writer's iterator (writer.ts:38, :62): output() has no
\* onStart here and enters its loop (part_003:104-107)
WriterStart ==
  /\ UNCHANGED extVars
  /\ UNCHANGED catVars
  /\ gpc = "init"
  /\ LoopTop
  /\ UNCHANGED <<bufferCapacity, isDone, readError, firstError, bufferAtError, published, value,
                 settled, source, pidx, ppc, out>>

NextWriter ==
  \/ \E p \in Subs : Write(p)
  \/ End
  \/ WriterStart
  \/ ValueReady
  \/ GenThrow
  \/ GenYield
  \/ GenNoResult
  \/ GenYieldReady
  \/ GenNext
  \/ \E p \in Subs : Settle(p)
  \/ \E p \in Subs : Reject(p)
  \/ \E p \in Subs : Resume(p)

SpecWriter == InitWriter /\ [][NextWriter]_vars

(* ---------------- writer() given values that may be undefined ---------------- *)
(* The same push adapter, written values of any kind: a pipeline stage whose  *)
(* function returns nothing (x => { log(x) }) submits undefined.              *)

\* every value write() may be given
AnyValues == Values \cup {Undefined}

\* writer.write(value) (writer.ts:42) with a value that may be undefined
WriteAny(p) ==
  /\ UNCHANGED extVars
  /\ UNCHANGED catVars
  /\ ~isDone
  /\ p <= MaxPub
  /\ pstate[p] = "idle"
  /\ \A q \in 1..(p - 1) : pstate[q] # "idle"
  /\ \E v \in AnyValues : PublishCall(p, v)
  /\ UNCHANGED <<bufferCapacity, consuming, buffer, woken, isDone, readError, firstError,
                 bufferAtError, cstate, cgot, delivered, settled, seqConsumer>>
  /\ UNCHANGED mapVars

NextUndefined ==
  \/ \E p \in Subs : WriteAny(p)
  \/ End
  \/ WriterStart
  \/ ValueReady
  \/ GenThrow
  \/ GenYield
  \/ GenNoResult
  \/ GenYieldReady
  \/ GenNext
  \/ \E p \in Subs : Settle(p)
  \/ \E p \in Subs : Reject(p)
  \/ \E p \in Subs : Resume(p)

SpecUndefined == InitWriter /\ [][NextUndefined]_vars

(* ---------------- writer(callback).transform(value) ---------------- *)
(* The push adapter around a pipeline that gives one output per input (the   *)
(* callback is map(f) of part_004:13-20), driven by transform() calls made   *)
(* one after the other, each awaited before the next.  Call k makes          *)
(* submission k; tret records, per call, the submission whose output the     *)
(* call returned.                                                             *)

Thrown == 0 - 2   \* a transform() call that rejected

\* n.value of the result of iterator.next() (writer.ts:54-57): the output the
\* pipeline gave for the value its input generator yielded last
NextResult(o) == o[Len(o)]

InitTransform ==
  /\ InitChan
  /\ IdleConcat
  /\ tpc = "idle"
  /\ tret = <<>>
  /\ splitter = [v \in Values |-> <<>>]
  /\ dpc = [p \in Subs |-> "idle"]
  /\ bbuffer = [b \in Branches |-> <<>>]
  /\ bwait = [b \in Branches |-> <<>>]
  /\ bwoken = [b \in Branches |-> {}]
  /\ bpc = [b \in Branches |-> "none"]
  /\ bdone = [b \in Branches |-> FALSE]
  /\ received = [b \in Branches |-> <<>>]
  /\ fin = "none"
  /\ source = <<>>
  /\ ppc = "none"
  /\ gpc = "init"

\* transform(value) is called: await publish(value) (writer.ts:47-49)
TransformCall ==
  /\ tpc = "idle"
  /\ Len(tret) < MaxPub
  /\ \E v \in Values : PublishCall(Len(tret) + 1, v)
  /\ tpc' = "publishing"
  /\ UNCHANGED <<bufferCapacity, consuming, buffer, woken, isDone, readError, firstError,
                 bufferAtError, cstate, cgot, delivered, settled, seqConsumer>>
  /\ UNCHANGED mapVars
  /\ UNCHANGED catVars
  /\ UNCHANGED <<tret, splitter, dpc, bbuffer, bwait, bwoken, bpc, bdone, received, fin>>

\* publish returned: iterator.next() (writer.ts:50-52).  The pipeline asks its
\* input, the output() generator of the channel, for the next value; a
\* generator that has finished answers at once.
TransformNext ==
  /\ tpc = "publishing"
  /\ (Len(tret) + 1) \in published
  /\ tpc' = "next"
  /\ IF gpc = "init" THEN LoopTop
     ELSE IF gpc = "yielded" THEN LoopCheck
     ELSE /\ UNCHANGED <<gpc, gcur, winner>>
          /\ UNCHANGED consVars
  /\ UNCHANGED <<bufferCapacity, isDone, readError, firstError, bufferAtError, published, value,
                 settled, source, pidx, ppc, out>>
  /\ UNCHANGED catVars
  /\ UNCHANGED <<tret, splitter, dpc, bbuffer, bwait, bwoken, bpc, bdone, received, fin>>

\* await next; return n.value (writer.ts:54-57): the pipeline gave its output
\* for the value just yielded to it, or it has finished, or it threw
TransformReturn ==
  /\ tpc = "next"
  /\ gpc \in {"yielded", "done", "threw"}
  /\ tret' = Append(tret, IF gpc = "yielded" THEN NextResult(out)
                          ELSE IF gpc = "done" THEN Absent
                          ELSE IF Thrown \in Range(tret) THEN Absent ELSE Thrown)
  /\ tpc' = "idle"
  /\ UNCHANGED chanVars
  /\ UNCHANGED mapVars
  /\ UNCHANGED catVars
  /\ UNCHANGED <<splitter, dpc, bbuffer, bwait, bwoken, bpc, bdone, received, fin>>

NextTransform ==
  \/ TransformCall
  \/ TransformNext
  \/ TransformReturn
  \/ End
  \/ ValueReady
  \/ GenThrow
  \/ GenYield
  \/ GenNoResult
  \/ GenYieldReady
  \/ \E p \in Subs : Settle(p)
  \/ \E p \in Subs : Reject(p)

SpecTransform == InitTransform /\ [][NextTransform]_vars

(* ---------------- concat(inputs, inputConcurrency, outputConcurrency) ---------------- *)
(* The fan-in multiplexer of lib/pubsub.ts:85-261.  Its channel is the       *)
(* publish/consume core; the values it publishes are plain objects, so the   *)
(* settle callback of a submission is queued the moment it is admitted and   *)
(* the callbacks run in the order they were queued.                          *)

\* the items of all sources are numbered source by source: source s gives the
\* items Offset(s) + 1 .. Offset(s) + iterators[s], in this order
RECURSIVE Offset(_)
Offset(s) == IF s <= 1 THEN 0 ELSE Offset(s - 1) + iterators[s - 1]
ItemsOf(s) == (Offset(s) + 1)..(Offset(s) + iterators[s])
AllItems == UNION {ItemsOf(s) : s \in 1..Len(iterators)}
SourceOf(p) == CHOOSE s \in 1..Len(iterators) : p \in ItemsOf(s)
Without(q, x) == SelectSeq(q, LAMBDA y : y # x)

\* concat picks _concat when both limits are 1 or the tap limit is omitted
\* (pubsub.ts:256); cap is outputConcurrency || Infinity (pubsub.ts:259)
Sequential(k, cap) == (k = 1 /\ cap = 1) \/ k = Absent

\* the capacity concat gives the shared channel: outputConcurrency || Infinity
\* (pubsub.ts:259, :120)
OutputLimit(oc) == IF oc = Absent THEN Infinity ELSE oc

\* countActiveIterators() >= inputConcurrency (pubsub.ts:196)
TapLimitReachedOff(n, k) == n > k
TapLimitReached(n, k) == n >= k

\* countActiveIterators() (pubsub.ts:139-147): sources with a counter entry,
\* plus active sources without one
CountActiveIterators == Cardinality({s \in 1..MaxSrc : counters[s] # 0 \/ s \in active})

\* countBufferedValues(iterator, 0) == 0 (pubsub.ts:177)
DrainedAlways(cnt, s) == TRUE
Drained(cnt, s) == cnt[s] = 0

\* the exit test of the output loop (pubsub.ts:220)
AllDrainedEarly(ie, act, cnt, prod) == ie /\ act = {}
AllDrained(ie, act, cnt, prod) ==
  ie /\ act = {} /\ (\A s \in 1..MaxSrc : cnt[s] = 0) /\ prod = {}

\* the settle callbacks are promise reactions: the one queued first runs first
\* (pubsub.ts:42)
NextToSettleNewest(q) == q[Len(q)]
NextToSettle(q) == Head(q)

\* nextIteratorIfNeeded(iterator) (pubsub.ts:173-184), given the sets as they
\* are when it is called; calling a resolver a second time does nothing
NextIteratorIfNeeded(s, act, cnt, prod) ==
  IF /\ onNextIterator = "pending"
     /\ s \notin act
     /\ Drained(cnt, s)
     /\ Cardinality(prod) < bufferCapacity
  THEN /\ onNextIterator' = "resolved"
       /\ ipc' = "woken"
  ELSE UNCHANGED <<onNextIterator, ipc>>

\* the reader of source s is awaiting its source (pubsub.ts:160): it called
\* next() when it was started, or after await publish(...) returned (pubsub.ts:163)
AwaitingSource(s) ==
  \/ rpc[s] = "pulling"
  \/ rpc[s] = "publishing" /\ (Offset(s) + rpos[s]) \in published

\* readIterator(iterator) up to its first await (pubsub.ts:152-160)
ReadIterator(s) ==
  /\ active' = active \cup {s}
  /\ rpc' = [rpc EXCEPT ![s] = "pulling"]

InitConcat ==
  /\ IdleExt
  /\ outputConcurrency \in {Absent} \cup (1..MaxCap) \cup {Infinity}
  /\ bufferCapacity = OutputLimit(outputConcurrency)
  /\ EmptyChan
  /\ source = <<>>
  /\ ppc = "none"
  /\ gpc = "init"
  /\ inputConcurrency \in {Absent} \cup (1..MaxTap) \cup {Infinity}
  /\ iterators \in UNION {[1..n -> 0..MaxLen] : n \in 0..MaxSrc}
  /\ inputsExhausted = FALSE
  /\ counters = [s \in 1..MaxSrc |-> 0]
  /\ active = {}
  /\ onNextIterator = "undefined"
  /\ ipc = "none"
  /\ tapped = 0
  /\ rpc = [s \in 1..MaxSrc |-> "idle"]
  /\ rpos = [s \in 1..MaxSrc |-> 0]
  /\ settleQueue = <<>>

\* first next() on _concatConcurrently (pubsub.ts:120-216): the intake loop
\* starts pulling the outer sequence, the generator awaits setImmediate
CatStart ==
  /\ UNCHANGED extVars
  /\ gpc = "init"
  /\ ~Sequential(inputConcurrency, bufferCapacity)
  /\ ipc' = "pull"
  /\ gpc' = "immediate"
  /\ UNCHANGED chanVars
  /\ UNCHANGED <<source, pidx, ppc, gcur, winner, out>>
  /\ UNCHANGED <<inputConcurrency, outputConcurrency, iterators, inputsExhausted, counters, active, onNextIterator,
                 tapped, rpc, rpos, settleQueue>>

\* the outer sequence gives the next source (pubsub.ts:191-206)
IntakeNext ==
  /\ UNCHANGED extVars
  /\ ipc = "pull"
  /\ tapped < Len(iterators)
  /\ tapped' = tapped + 1
  /\ IF TapLimitReached(CountActiveIterators, inputConcurrency)
     THEN /\ onNextIterator' = "pending"
          /\ ipc' = "wait"
          /\ UNCHANGED <<active, rpc>>
     ELSE /\ ReadIterator(tapped + 1)
          /\ UNCHANGED <<onNextIterator, ipc>>
  /\ UNCHANGED chanVars
  /\ UNCHANGED mapVars
  /\ UNCHANGED <<inputConcurrency, outputConcurrency, iterators, inputsExhausted, counters, rpos, settleQueue>>

\* the intake loop continues after onNextIterator was resolved (pubsub.ts:198-205):
\* it taps the source it held back, without a second look at the count
IntakeResume ==
  /\ UNCHANGED extVars
  /\ ipc = "woken"
  /\ ReadIterator(tapped)
  /\ ipc' = "pull"
  /\ UNCHANGED chanVars
  /\ UNCHANGED mapVars
  /\ UNCHANGED <<inputConcurrency, outputConcurrency, iterators, inputsExhausted, counters, onNextIterator, tapped,
                 rpos, settleQueue>>

\* the outer sequence is exhausted (pubsub.ts:209-211)
IntakeEnd ==
  /\ UNCHANGED extVars
  /\ ipc = "pull"
  /\ tapped = Len(iterators)
  /\ inputsExhausted' = TRUE
  /\ ipc' = "done"
  /\ UNCHANGED chanVars
  /\ UNCHANGED mapVars
  /\ UNCHANGED <<inputConcurrency, outputConcurrency, iterators, counters, active, onNextIterator, tapped, rpc, rpos,
                 settleQueue>>

\* source s gives its next item (pubsub.ts:160-163): the counter is raised and
\* publish is called
ReaderItem(s) ==
  /\ UNCHANGED extVars
  /\ AwaitingSource(s)
  /\ rpos[s] < iterators[s]
  /\ rpos' = [rpos EXCEPT ![s] = @ + 1]
  /\ counters' = [counters EXCEPT ![s] = @ + 1]
  /\ PublishCall(Offset(s) + rpos[s] + 1, Offset(s) + rpos[s] + 1)
  /\ settleQueue' = IF (Offset(s) + rpos[s] + 1) \in producing'
                    THEN Append(settleQueue, Offset(s) + rpos[s] + 1)
                    ELSE settleQueue
  /\ rpc' = [rpc EXCEPT ![s] = "publishing"]
  /\ UNCHANGED <<bufferCapacity, consuming, buffer, woken, isDone, readError, firstError,
                 bufferAtError, cstate, cgot, delivered, settled, seqConsumer>>
  /\ UNCHANGED mapVars
  /\ UNCHANGED <<inputConcurrency, outputConcurrency, iterators, inputsExhausted, active, onNextIterator, ipc, tapped>>

\* source s reports that it is exhausted (pubsub.ts:166-170)
ReaderEnd(s) ==
  /\ UNCHANGED extVars
  /\ AwaitingSource(s)
  /\ rpos[s] = iterators[s]
  /\ active' = active \ {s}
  /\ rpc' = [rpc EXCEPT ![s] = "done"]
  /\ NextIteratorIfNeeded(s, active \ {s}, counters, producing)
  /\ UNCHANGED chanVars
  /\ UNCHANGED mapVars
  /\ UNCHANGED <<inputConcurrency, outputConcurrency, iterators, inputsExhausted, counters, tapped, rpos, settleQueue>>

\* the settle callback of the submission admitted first runs (pubsub.ts:42-65)
CatSettle ==
  /\ UNCHANGED extVars
  /\ settleQueue # <<>>
  /\ SettleCall(NextToSettle(settleQueue))
  /\ settleQueue' = Without(settleQueue, NextToSettle(settleQueue))
  /\ UNCHANGED <<bufferCapacity, isDone, readError, firstError, bufferAtError, published, value,
                 seqConsumer>>
  /\ UNCHANGED mapVars
  /\ UNCHANGED <<inputConcurrency, outputConcurrency, iterators, inputsExhausted, counters, active, onNextIterator,
                 ipc, tapped, rpc, rpos>>

\* a suspended publish call continues after its wait() was resolved
\* (pubsub.ts:38-66)
CatResume(p) ==
  /\ UNCHANGED extVars
  /\ ResumeCall(p)
  /\ settleQueue' = Append(settleQueue, p)
  /\ UNCHANGED <<bufferCapacity, consuming, buffer, waitingProducers, isDone, readError,
                 firstError, bufferAtError, value, cstate, cgot, delivered, settled, seqConsumer>>
  /\ UNCHANGED mapVars
  /\ UNCHANGED <<inputConcurrency, outputConcurrency, iterators, inputsExhausted, counters, active, onNextIterator,
                 ipc, tapped, rpc, rpos>>

\* the test of the output loop and, if it goes on, consume() (pubsub.ts:220-226)
CatLoop ==
  /\ IF AllDrained(inputsExhausted, active, counters, producing)
     THEN /\ gpc' = "done"
          /\ UNCHANGED gcur
          /\ UNCHANGED consVars
     ELSE /\ ConsumeCall(gcur + 1)
          /\ gcur' = gcur + 1
          /\ gpc' = "consuming"
  /\ UNCHANGED <<bufferCapacity, isDone, readError, firstError, bufferAtError, published, value,
                 settled>>
  /\ UNCHANGED <<source, pidx, ppc, winner, out>>
  /\ UNCHANGED catVars

\* setImmediate fired (pubsub.ts:216): the output loop is entered
CatEnterLoop ==
  /\ UNCHANGED extVars
  /\ gpc = "immediate"
  /\ CatLoop

\* the consumer of concat asks for the next value: the generator continues
\* after its yield (pubsub.ts:231, then :220)
CatNext ==
  /\ UNCHANGED extVars
  /\ gpc = "yielded"
  /\ ~Sequential(inputConcurrency, bufferCapacity)
  /\ CatLoop

\* await consume() returned (pubsub.ts:226-231): the counter of the item's
\* source is lowered, the intake loop is signalled if needed, the item is yielded
CatYield ==
  /\ UNCHANGED extVars
  /\ gpc = "consuming"
  /\ cstate[gcur] = "resolved"
  /\ counters' = [counters EXCEPT ![SourceOf(cgot[gcur])] = @ - 1]
  /\ NextIteratorIfNeeded(SourceOf(cgot[gcur]), active, counters', producing)
  /\ out' = Append(out, cgot[gcur])
  /\ gpc' = "yielded"
  /\ UNCHANGED chanVars
  /\ UNCHANGED <<source, pidx, ppc, gcur, winner>>
  /\ UNCHANGED <<inputConcurrency, outputConcurrency, iterators, inputsExhausted, active, tapped, rpc, rpos,
                 settleQueue>>

\* the consumer asks _concat for the next value (pubsub.ts:93-99)
SeqConcatNext ==
  /\ UNCHANGED extVars
  /\ gpc \in {"init", "yielded"}
  /\ Sequential(inputConcurrency, bufferCapacity)
  /\ gpc' = "seqPull"
  /\ UNCHANGED chanVars
  /\ UNCHANGED <<source, pidx, ppc, gcur, winner, out>>
  /\ UNCHANGED catVars

\* _concat receives what it awaits (pubsub.ts:94-96): the next item of the
\* current source, which is yielded, the end of the current source, the next
\* source, or the end of the outer sequence
SeqConcatStep ==
  /\ UNCHANGED extVars
  /\ gpc = "seqPull"
  /\ IF tapped > 0 /\ rpc[tapped] = "iterating"
     THEN IF rpos[tapped] < iterators[tapped]
          THEN /\ rpos' = [rpos EXCEPT ![tapped] = @ + 1]
               /\ out' = Append(out, Offset(tapped) + rpos[tapped] + 1)
               /\ gpc' = "yielded"
               /\ UNCHANGED <<tapped, rpc>>
          ELSE /\ rpc' = [rpc EXCEPT ![tapped] = "done"]
               /\ UNCHANGED <<tapped, rpos, out, gpc>>
     ELSE IF tapped < Len(iterators)
          THEN /\ tapped' = tapped + 1
               /\ rpc' = [rpc EXCEPT ![tapped + 1] = "iterating"]
               /\ UNCHANGED <<rpos, out, gpc>>
          ELSE /\ gpc' = "done"
               /\ UNCHANGED <<tapped, rpc, rpos, out>>
  /\ UNCHANGED chanVars
  /\ UNCHANGED <<source, pidx, ppc, gcur, winner>>
  /\ UNCHANGED <<inputConcurrency, outputConcurrency, iterators, inputsExhausted, counters, active, onNextIterator,
                 ipc, settleQueue>>

NextConcat ==
  \/ CatStart
  \/ IntakeNext
  \/ IntakeResume
  \/ IntakeEnd
  \/ \E s \in 1..MaxSrc : ReaderItem(s)
  \/ \E s \in 1..MaxSrc : ReaderEnd(s)
  \/ CatSettle
  \/ \E p \in Subs : CatResume(p)
  \/ CatEnterLoop
  \/ CatNext
  \/ CatYield
  \/ SeqConcatNext
  \/ SeqConcatStep

SpecConcat == InitConcat /\ [][NextConcat]_vars

(* ---------------- concat over sources that may fail ---------------- *)

\* the sources whose iteration threw
FailedSources == {s \in 1..MaxSrc : rpc[s] = "failed"}

\* source s throws instead of giving its next item or its end: the for await
\* of readIterator throws, its finally runs (pubsub.ts:160, :166-170) and the
\* promise of readIterator(iterator), which the intake loop neither awaits nor
\* catches (pubsub.ts:205), rejects
ReaderFail(s) ==
  /\ UNCHANGED extVars
  /\ AwaitingSource(s)
  /\ active' = active \ {s}
  /\ rpc' = [rpc EXCEPT ![s] = "failed"]
  /\ NextIteratorIfNeeded(s, active \ {s}, counters, producing)
  /\ UNCHANGED chanVars
  /\ UNCHANGED mapVars
  /\ UNCHANGED <<inputConcurrency, outputConcurrency, iterators, inputsExhausted, counters, tapped, rpos, settleQueue>>

\* the source _concat is iterating throws (pubsub.ts:95): the generator throws
SeqConcatFail ==
  /\ UNCHANGED extVars
  /\ gpc = "seqPull"
  /\ tapped > 0
  /\ rpc[tapped] = "iterating"
  /\ rpc' = [rpc EXCEPT ![tapped] = "failed"]
  /\ gpc' = "threw"
  /\ UNCHANGED chanVars
  /\ UNCHANGED <<source, pidx, ppc, gcur, winner, out>>
  /\ UNCHANGED <<inputConcurrency, outputConcurrency, iterators, inputsExhausted, counters, active, onNextIterator,
                 ipc, tapped, rpos, settleQueue>>

NextConcatFailing ==
  \/ NextConcat
  \/ \E s \in 1..MaxSrc : ReaderFail(s)
  \/ SeqConcatFail

\* as InitConcat, with at most MaxFailSrc sources
InitConcatFailing ==
  /\ InitConcat
  /\ Len(iterators) <= MaxFailSrc

SpecConcatFailing == InitConcatFailing /\ [][NextConcatFailing]_vars

(* ---------------- dispatch(splitter, a, b, c, d, concurrency) ---------------- *)
(* The branch router of dispatch.ts.  Its consumer loop publishes the promise *)
(* of dispatcher(item) into a channel of capacity `concurrency`; that promise *)
(* fulfils with the item itself once the splitter returned and every present  *)
(* part was accepted by its branch writer.  The router's output is the        *)
(* output() generator of that channel and end is its onReadComplete.          *)
(*                                                                            *)
(* Every branch is a writer(pipeline, concurrency) whose start() was called   *)
(* when the router was built, so its sub-pipeline waits in consume() before   *)
(* the first write.  A part is a plain value: the settle callback of its      *)
(* publish call runs in the microtask after its admission, before anything    *)
(* else can look at the branch, and is taken together with the admission.     *)
(* The parts in flight in a branch channel are therefore those in its ready   *)
(* buffer.  A sub-pipeline takes one part at a time, works on it for as long  *)
(* as it likes, and may throw while it works.                                 *)
(*                                                                            *)
(* dispatch.ts hands output() a callback and expects it to run when the loop  *)
(* of output() has ended, before the generator reports done; the channel of   *)
(* src/unnamed/part_003 has no such parameter.  RouterFinish, RouterComplete  *)
(* and RouterReject follow the specification of the router's shutdown.        *)

branchVars == <<bbuffer, bwait, bwoken, bpc, received>>

\* what a splitter answers for an item it throws on
Failing == {0}

\* the number 0 as the value of a part: falsy, but not undefined
Zero == 0 - 2

\* what a splitter that throws on an item returns for it: no tuple
NoTuple == <<>>

\* the splitters tried.  A splitter is a function of the item to the tuple of
\* its parts, one per branch, Undefined where it has none.  One routes every
\* item to one branch by its value (dispatch.test.ts:54-107), one gives a part
\* to every branch or to none (dispatch.test.ts:368-401), one throws on some
\* items.
Splitters ==
  { [v \in Values |-> [b \in Branches |->
                         IF b = ((v - 1) % MaxBranch) + 1 THEN v ELSE Undefined]],
    [v \in Values |-> [b \in Branches |-> IF v = 1 THEN v ELSE Undefined]],
    [v \in Values |-> IF v = 1 THEN [b \in Branches |-> IF b = 1 THEN v ELSE Undefined]
                      ELSE NoTuple] }

\* a splitter whose parts are numbers that can be 0: item => [item - 1, item]
\* on the first item value, and one that throws on the others
FalsySplitters ==
  { [v \in Values |-> IF v = 1 THEN [b \in Branches |-> IF b = 1 THEN Zero ELSE v]
                      ELSE NoTuple] }

\* what the splitter returned for item p (dispatch.ts:34)
Answer(p) == splitter[source[p]]

\* the test `a ? streamA?.write(a) : undefined` of a part (dispatch.ts:37-40)
Truthy(part) == part # Undefined /\ part # Zero

\* the branches item p has a part for, absent parts left out
Present(p) ==
  IF Answer(p) = NoTuple THEN {} ELSE {b \in Branches : Answer(p)[b] # Undefined}

\* the branches a part of item p is written to (dispatch.ts:34-41)
Parts(p) ==
  IF Answer(p) = NoTuple THEN Failing ELSE {b \in Branches : Truthy(Answer(p)[b])}

\* the items of the source that have a part for branch b, in source order
PartsFor(b) == SelectSeq([i \in 1..Len(source) |-> i], LAMBDA i : b \in Parts(i))

\* publish of a branch channel must wait (part_003:40-42)
BranchFull(b) == IsFull(Len(bbuffer[b]), bufferCapacity)

\* the sub-pipeline of a branch asks for a part while none is ready
\* (part_003:91-93), so the next part admitted is handed to it
HandsOver(b) == bpc[b] = "racing"

\* every write of dispatcher(p) was admitted by its branch channel: the
\* Promise.all of dispatch.ts:36-41 fulfils
Accepted(p) == \A b \in Parts(p) : p \notin Range(bwait[b]) /\ p \notin bwoken[b]

\* every branch has run to its end: the Promise.all over the start() promises
\* fulfils (dispatch.ts:62, :67)
BranchesDrainedEarly(pc) == TRUE
BranchesDrained(pc) == \A b \in Branches : pc[b] = "drained"

\* write(part of p) on every branch of T (writer.ts:42, part_003:37-74).  With
\* recheck the call looks at the size of the channel first and may suspend in
\* wait(); a call that continues after wait() does not look again.  An
\* admitted part goes to the waiting sub-pipeline, which frees its slot and
\* notifies one suspended write, or into the ready buffer.
WriteParts(p, T, recheck) ==
  LET waits(b) == b \in T /\ recheck /\ BranchFull(b)
      hands(b) == b \in T /\ ~waits(b) /\ HandsOver(b)
      buffers(b) == b \in T /\ ~waits(b) /\ ~HandsOver(b)
      notified(b) == IF hands(b) /\ bwait[b] # <<>> THEN {Head(bwait[b])} ELSE {}
  IN /\ bbuffer' = [b \in Branches |->
                      IF buffers(b) THEN Append(bbuffer[b], p) ELSE bbuffer[b]]
     /\ received' = [b \in Branches |->
                       IF hands(b) THEN Append(received[b], p) ELSE received[b]]
     /\ bpc' = [b \in Branches |-> IF hands(b) THEN "busy" ELSE bpc[b]]
     /\ bwait' = [b \in Branches |->
                    IF waits(b) THEN Append(bwait[b], p)
                    ELSE IF notified(b) # {} THEN Tail(bwait[b]) ELSE bwait[b]]
     /\ bwoken' = [b \in Branches |->
                     (bwoken[b] \cup notified(b)) \ (IF b \in T /\ ~recheck THEN {p} ELSE {})]

InitDispatchWith(splitters) ==
  /\ InitChan
  /\ IdleConcat
  /\ tpc = "none"
  /\ tret = <<>>
  /\ source \in Sources
  /\ splitter \in splitters
  /\ dpc = [p \in Subs |-> "idle"]
  /\ bbuffer = [b \in Branches |-> <<>>]
  /\ bwait = [b \in Branches |-> <<>>]
  /\ bwoken = [b \in Branches |-> {}]
  /\ bpc = [b \in Branches |-> "racing"]
  /\ bdone = [b \in Branches |-> FALSE]
  /\ received = [b \in Branches |-> <<>>]
  /\ fin = "open"
  /\ ppc = "pulling"
  /\ gpc = "init"

InitDispatch == InitDispatchWith(Splitters)

\* dispatch over a splitter whose parts can be the number 0
InitDispatchFalsy == InitDispatchWith(FalsySplitters)

\* publish(dispatcher(item, i++, iterator)) (dispatch.ts:54, :33-34): the
\* dispatcher runs up to await splitter(item); the value of the submission is
\* the item, unmodified
Dispatcher(item) ==
  /\ PublishCall(item, source[item])
  /\ dpc' = [dpc EXCEPT ![item] = "splitting"]
  /\ ppc' = "pulling"

\* the consumer loop receives the next item of the source (dispatch.ts:50-54)
DispatchPull ==
  /\ ppc = "pulling"
  /\ pidx < Len(source)
  /\ pidx' = pidx + 1
  /\ IF IsFull(Cardinality(producing), bufferCapacity)
     THEN /\ waitingProducers' = Add(waitingProducers, PUMP)       \* await wait()
          /\ ppc' = "waiting"
          /\ UNCHANGED <<value, producing, pstate, published, dpc>>
     ELSE Dispatcher(pidx + 1)
  /\ UNCHANGED <<bufferCapacity, consuming, buffer, woken, isDone, readError, firstError,
                 bufferAtError, cstate, cgot, delivered, settled, seqConsumer>>
  /\ UNCHANGED <<source, gpc, gcur, winner, out>>
  /\ UNCHANGED catVars
  /\ UNCHANGED branchVars
  /\ UNCHANGED <<tpc, tret, splitter, bdone, fin>>

\* the consumer loop continues after its wait() was resolved (dispatch.ts:52-54)
DispatchResume ==
  /\ ppc = "waiting"
  /\ PUMP \in woken
  /\ woken' = woken \ {PUMP}
  /\ Dispatcher(pidx)
  /\ UNCHANGED <<bufferCapacity, consuming, buffer, isDone, readError, firstError,
                 bufferAtError, cstate, cgot, delivered, settled, seqConsumer>>
  /\ UNCHANGED <<source, pidx, gpc, gcur, winner, out>>
  /\ UNCHANGED catVars
  /\ UNCHANGED branchVars
  /\ UNCHANGED <<tpc, tret, splitter, bdone, fin>>

\* the source is exhausted: finally of the consumer loop (dispatch.ts:56-57)
DispatchExhaust ==
  /\ UNCHANGED extVars
  /\ ppc = "pulling"
  /\ pidx = Len(source)
  /\ OnReadComplete(winner)
  /\ ppc' = "done"
  /\ UNCHANGED <<bufferCapacity, producing, consuming, buffer, waitingProducers, woken,
                 readError, firstError, bufferAtError, pstate, published, value, cstate, cgot,
                 delivered, settled, seqConsumer>>
  /\ UNCHANGED <<source, pidx, gpc, gcur, out>>
  /\ UNCHANGED catVars

\* first next() on the router's output (dispatch.ts:63): the loop of the
\* channel's output generator is entered (part_003:104-107)
DispatchStart ==
  /\ UNCHANGED extVars
  /\ gpc = "init"
  /\ LoopTop
  /\ UNCHANGED <<bufferCapacity, isDone, readError, firstError, bufferAtError, published, value,
                 settled, source, pidx, ppc, out>>
  /\ UNCHANGED catVars

\* the splitter returned the parts of item p: write every present part to its
\* branch and await all the writes (dispatch.ts:34-41)
DispatchSplit(p) ==
  /\ dpc[p] = "splitting"
  /\ Parts(p) # Failing
  /\ dpc' = [dpc EXCEPT ![p] = "writing"]
  /\ WriteParts(p, Parts(p), TRUE)
  /\ UNCHANGED chanVars
  /\ UNCHANGED mapVars
  /\ UNCHANGED catVars
  /\ UNCHANGED <<tpc, tret, splitter, bdone, fin>>

\* the splitter threw or rejected: the promise of dispatcher(p) rejects
\* (dispatch.ts:34) and the router's channel records the error (part_003:69-72)
DispatchReject(p) ==
  /\ dpc[p] = "splitting"
  /\ Parts(p) = Failing
  /\ dpc' = [dpc EXCEPT ![p] = "failed"]
  /\ RejectCall(p)
  /\ winner' = IF gpc = "racing" /\ winner = "none" THEN "error" ELSE winner
  /\ UNCHANGED <<bufferCapacity, consuming, buffer, waitingProducers, woken, isDone,
                 published, value, cstate, cgot, delivered, settled, seqConsumer>>
  /\ UNCHANGED <<source, pidx, ppc, gpc, gcur, out>>
  /\ UNCHANGED catVars
  /\ UNCHANGED branchVars
  /\ UNCHANGED <<tpc, tret, splitter, bdone, fin>>

\* every write of dispatcher(p) was accepted: it returns the item
\* (dispatch.ts:36-44) and the settle callback of the router's channel runs
\* (part_003:44-67)
DispatchSettle(p) ==
  /\ dpc[p] = "writing"
  /\ Accepted(p)
  /\ dpc' = [dpc EXCEPT ![p] = "done"]
  /\ SettleCall(p)
  /\ UNCHANGED <<bufferCapacity, isDone, readError, firstError, bufferAtError, published, value,
                 seqConsumer>>
  /\ UNCHANGED mapVars
  /\ UNCHANGED catVars
  /\ UNCHANGED branchVars
  /\ UNCHANGED <<tpc, tret, splitter, bdone, fin>>

\* a write suspended on a full branch channel continues after wait()
\* (part_003:40-44): it is admitted without a second look at the size
BranchResume(b, p) ==
  /\ p \in bwoken[b]
  /\ WriteParts(p, {b}, FALSE)
  /\ UNCHANGED chanVars
  /\ UNCHANGED mapVars
  /\ UNCHANGED catVars
  /\ UNCHANGED <<tpc, tret, splitter, dpc, bdone, fin>>

\* the sub-pipeline of branch b is through with a part and asks for the next:
\* the end-of-loop test of the branch's output() (part_003:115-117), then
\* consume() (part_003:86-94), which takes the oldest ready part, frees its
\* slot and notifies one suspended write, or waits
BranchPull(b) ==
  /\ bpc[b] = "busy"
  /\ IF bbuffer[b] = <<>>
     THEN /\ bpc' = [bpc EXCEPT ![b] = IF bdone[b] THEN "drained" ELSE "racing"]
          /\ UNCHANGED <<bbuffer, bwait, bwoken, received>>
     ELSE /\ received' = [received EXCEPT ![b] = Append(@, Head(bbuffer[b]))]
          /\ bbuffer' = [bbuffer EXCEPT ![b] = Tail(@)]
          /\ IF bwait[b] # <<>>
             THEN /\ bwoken' = [bwoken EXCEPT ![b] = @ \cup {Head(bwait[b])}]
                  /\ bwait' = [bwait EXCEPT ![b] = Tail(@)]
             ELSE UNCHANGED <<bwait, bwoken>>
          /\ UNCHANGED bpc
  /\ UNCHANGED chanVars
  /\ UNCHANGED mapVars
  /\ UNCHANGED catVars
  /\ UNCHANGED <<tpc, tret, splitter, dpc, bdone, fin>>

\* the sub-pipeline of branch b throws while it works on a part: its start()
\* promise rejects (writer.ts:60-68) and nothing consumes the branch any more
BranchFail(b) ==
  /\ bpc[b] = "busy"
  /\ bpc' = [bpc EXCEPT ![b] = "failed"]
  /\ UNCHANGED chanVars
  /\ UNCHANGED mapVars
  /\ UNCHANGED catVars
  /\ UNCHANGED <<tpc, tret, splitter, dpc, bbuffer, bwait, bwoken, bdone, received, fin>>

\* the loop of the router's output has ended: the shutdown callback calls
\* end() on every branch (dispatch.ts:63-65, writer.ts:43-46); a sub-pipeline
\* waiting for a part sees readComplete and ends (part_003:107-117)
RouterFinish ==
  /\ fin = "open"
  /\ gpc \in {"done", "threw"}
  /\ fin' = "draining"
  /\ bdone' = [b \in Branches |-> TRUE]
  /\ bpc' = [b \in Branches |-> IF bpc[b] = "racing" THEN "drained" ELSE bpc[b]]
  /\ UNCHANGED chanVars
  /\ UNCHANGED mapVars
  /\ UNCHANGED catVars
  /\ UNCHANGED <<tpc, tret, splitter, dpc, bbuffer, bwait, bwoken, received>>

\* await Promise.all(streams) fulfils (dispatch.ts:67): the router's output
\* reports done, or throws the error its loop ended with
RouterComplete ==
  /\ fin = "draining"
  /\ BranchesDrained(bpc)
  /\ fin' = IF gpc = "threw" THEN "rejected" ELSE "completed"
  /\ UNCHANGED chanVars
  /\ UNCHANGED mapVars
  /\ UNCHANGED catVars
  /\ UNCHANGED <<tpc, tret, splitter, dpc, bdone>>
  /\ UNCHANGED branchVars

\* await Promise.all(streams) rejects (dispatch.ts:67): a branch failed, the
\* router's output throws
RouterReject ==
  /\ fin = "draining"
  /\ \E b \in Branches : bpc[b] = "failed"
  /\ fin' = "rejected"
  /\ UNCHANGED chanVars
  /\ UNCHANGED mapVars
  /\ UNCHANGED catVars
  /\ UNCHANGED <<tpc, tret, splitter, dpc, bdone>>
  /\ UNCHANGED branchVars

NextDispatch ==
  \/ DispatchPull
  \/ DispatchResume
  \/ DispatchExhaust
  \/ DispatchStart
  \/ \E p \in Subs : DispatchSplit(p)
  \/ \E p \in Subs : DispatchReject(p)
  \/ \E p \in Subs : DispatchSettle(p)
  \/ \E b \in Branches, p \in Subs : BranchResume(b, p)
  \/ \E b \in Branches : BranchPull(b)
  \/ \E b \in Branches : BranchFail(b)
  \/ RouterFinish
  \/ RouterComplete
  \/ RouterReject
  \/ ValueReady
  \/ GenThrow
  \/ GenYield
  \/ GenNoResult
  \/ GenYieldReady
  \/ GenNext

SpecDispatch == InitDispatch /\ [][NextDispatch]_vars

SpecDispatchFalsy == InitDispatchFalsy /\ [][NextDispatch]_vars

(* ======================= claims about the channel ======================= *)

DeliveredSubs == {delivered[i][2] : i \in DOMAIN delivered}
Suspended == {p \in Subs : pstate[p] = "waiting" /\ p \notin woken}
Min(S) == CHOOSE x \in S : \A y \in S : x <= y

\* C1: the in-flight set (producing) never holds more than bufferCapacity
\* submissions, whatever the interleaving of publish and consume calls.
C1_InFlightWithinCapacity == Cardinality(producing) <= bufferCapacity

C8_OnlyFirstCAdmitted ==
  (delivered = <<>> /\ consuming = <<>> /\ ~readError) =>
     \A p \in Subs : pstate[p] # "idle" =>
        IF p <= bufferCapacity THEN pstate[p] \in {"pending", "buffered"}
                               ELSE p \in Suspended

\* C8 (step part): with no waiting consumer, a suspended publish call is
\* released only by a consume call that takes a value, and such a consume call
\* releases exactly one suspended call, the one made first.
C8_ReleaseStep ==
  (consuming = <<>> /\ consuming' = <<>>) =>
     LET released == {p \in Suspended : p \in woken'} IN
     /\ released # {} => Len(delivered') = Len(delivered) + 1
     /\ (Len(delivered') = Len(delivered) + 1 /\ Suspended # {}) => released = {Min(Suspended)}
     /\ Cardinality(released) <= 1

\* C8: with capacity C and no waiting consumer only the first C publish calls
\* complete; each consume call that takes a value releases exactly one
\* suspended publish call, in the order the calls were made.
C8_BlockedUntilConsumed == [](C8_OnlyFirstCAdmitted) /\ [][C8_ReleaseStep]_vars

\* C8 witness: capacity 2, four publish calls, the first consume call took a
\* buffered value and released call 3 while call 4 is still suspended.
C8_Witness ==
  /\ bufferCapacity = 2
  /\ Len(delivered) = 1
  /\ consuming = <<>>
  /\ 3 \in woken
  /\ 4 \in Suspended
  /\ settled = <<1, 2>>

\* C9: every step that frees an in-flight slot while a producer is suspended
\* wakes exactly one suspended producer.
C9_FreedSlotWakesOne ==
  [][(producing' \subseteq producing /\ producing' # producing /\ waitingProducers # <<>>) =>
        /\ Cardinality(woken' \ woken) = 1
        /\ Len(waitingProducers') = Len(waitingProducers) - 1]_vars

\* C10 (as claimed): a value that settled into the ready buffer no longer
\* occupies a capacity slot, and a publish call is suspended only when
\* bufferCapacity submissions are still unsettled.
C10_SettledValuesFreeSlots ==
  /\ \A i \in DOMAIN buffer : buffer[i] \notin producing
  /\ \A p \in Suspended :
        Cardinality({q \in producing : pstate[q] = "pending"}) >= bufferCapacity

\* C10 (amended, state part): every value in the ready buffer still occupies
\* its slot of the in-flight set, so the buffer never holds more values than
\* there are submissions in flight.
C10_BufferedHoldSlot ==
  /\ Range(buffer) \subseteq producing
  /\ Len(buffer) <= Cardinality(producing)
  /\ \A p \in Subs : pstate[p] = "buffered" <=> p \in Range(buffer)

\* C10 (amended, step part): a publish call made while bufferCapacity settled
\* values sit unconsumed in the buffer is suspended.
C10_FullBufferBlocks ==
  \A p \in Subs :
     (pstate[p] = "idle" /\ pstate'[p] # "idle" /\ Len(buffer) >= bufferCapacity)
        => pstate'[p] = "waiting"

\* C10 (amended): capacity counts every submission no consume call has taken
\* yet, settled or not: buffered values keep their slots and block publish.
C10_CapacityCountsBuffered == [](C10_BufferedHoldSlot) /\ [][C10_FullBufferBlocks]_vars

\* C10 witness: the buffer holds bufferCapacity settled values, nothing is
\* pending, and a later publish call is suspended behind them.
C10_Witness ==
  /\ Len(buffer) = bufferCapacity
  /\ \A q \in producing : pstate[q] = "buffered"
  /\ Suspended # {}
  /\ delivered = <<>>

\* C11 (as claimed): the promise returned by publish(value) is resolved only
\* once the value was handed to a waiting consumer or placed in the ready
\* buffer, never while the value is still pending settlement.
C11_ResolvesAtHandOff ==
  \A p \in published : pstate[p] \in {"buffered", "delivered", "rejected"}

\* C11 (amended): the promise returned by publish(value) is resolved exactly
\* when the submission has been admitted to the in-flight set: a suspended call
\* is unresolved, an admitted one is resolved whether or not its value has
\* settled, been buffered or been taken.
C11_ResolvesAtAdmission ==
  \A p \in Subs : p \in published <=> pstate[p] \notin {"idle", "waiting"}

\* C11 witness: one publish call has returned while its value is still pending
\* settlement, another has returned with its value in the buffer, a third is
\* still suspended.
C11_Witness ==
  /\ \E p \in published : pstate[p] = "pending"
  /\ \E p \in published : pstate[p] = "buffered"
  /\ \E p \in Subs : pstate[p] = "waiting" /\ p \notin published

(* ======================= claims about map ======================= *)

Failed == {p \in Subs : pstate[p] \in {"rejected", "threw"}}
InProgress == {p \in Subs : pstate[p] = "pending"}
Count(seq, v) == Cardinality({i \in DOMAIN seq : seq[i] = v})
OutValues == [i \in DOMAIN out |-> value[out[i]]]
Mapped == [i \in DOMAIN source |-> F(source[i])]

\* C3: when nothing fails and the output of map(source, f, N) has been consumed
\* to its end, the values yielded are exactly the multiset of f(item) over the
\* source items: each item contributes one output, none is skipped or repeated.
C3_MapYieldsAllResults ==
  (gpc = "done" /\ ~readError) =>
     /\ Len(out) = Len(source)
     /\ \A v \in {F(x) : x \in Values} : Count(OutValues, v) = Count(Mapped, v)
     /\ \A i, j \in DOMAIN out : i # j => out[i] # out[j]

\* C4: the number of invocations of f that have started and not yet settled
\* never exceeds the concurrency limit, and the pump never has to queue a
\* publish call behind the limit.
C4_ConcurrencyLimit ==
  /\ Cardinality(InProgress) <= bufferCapacity
  /\ Cardinality(producing) <= bufferCapacity
  /\ \A p \in Subs : pstate[p] # "waiting"

\* C4 witness: limit 2, two invocations in progress while the consumer is
\* still busy with the value it was given and the pump waits with the next item.
C4_Witness ==
  /\ bufferCapacity = 2
  /\ Cardinality(InProgress) = 2
  /\ gpc = "yielded"
  /\ ppc = "waiting"
  /\ Len(out) = 1

\* C5: when the output of map rejects, every value that was in the ready
\* buffer at the moment the error was recorded has been yielded to the consumer.
C5_ReadyValuesSurviveError ==
  gpc = "threw" => Range(bufferAtError) \subseteq Range(out)

\* C6: once the transform threw or rejected for some item, the output never
\* completes normally and is never left waiting for a value that cannot come;
\* it rejects only with an error that occurred, and every value yielded is the
\* result of a distinct source item.
C6_TransformErrorRejects ==
  /\ Failed # {} => gpc # "done"
  /\ Failed # {} => ~(/\ gpc = "yieldWait"
                      /\ cstate[gcur] = "waiting"
                      /\ producing = {}
                      /\ ppc = "done")
  /\ gpc = "threw" => firstError # 0
  /\ \A i, j \in DOMAIN out : i # j => out[i] # out[j]

(* ======================= claims about the writer ======================= *)

\* C12: after end(), the output sequence reports done only when completion is
\* flagged and the in-flight set and the ready buffer are empty, and by then
\* every value admitted before end() has been yielded.
C12_DoneAfterAllDelivered ==
  (gpc = "done" /\ ~readError) =>
     /\ isDone
     /\ producing = {}
     /\ buffer = <<>>
     /\ published \subseteq Range(out)

(* ======================= claims about concat ======================= *)

\* a source is tapped once its readIterator was started (or _concat began to
\* iterate it); it is retired when it reported exhaustion and each of its items
\* was yielded downstream
Tapped(s) == rpc[s] # "idle"
Retired(s) == rpc[s] = "done" /\ ItemsOf(s) \subseteq Range(out)
Unretired == {s \in 1..Len(iterators) : Tapped(s) /\ ~Retired(s)}

\* C13: with tap limit K, the number of sources that were tapped and are not
\* yet retired (still being pulled, or exhausted with items not yet yielded)
\* never exceeds K.
C13_TapLimit ==
  inputConcurrency # Absent => Cardinality(Unretired) <= inputConcurrency

\* C13 witness: tap limit 2 of the concurrent multiplexer, two sources tapped
\* and unretired, one of them exhausted with an item still undelivered, and the
\* intake loop holding back a third source.
C13_Witness ==
  /\ inputConcurrency = 2
  /\ ~Sequential(inputConcurrency, bufferCapacity)
  /\ Cardinality(Unretired) = 2
  /\ \E s \in Unretired : rpc[s] = "done"
  /\ ipc = "wait"
  /\ tapped = 3

\* C14: with tap limit K, source number s > K is not pulled and none of its
\* items is yielded before s - K of the sources ahead of it are retired
\* (exhausted, with every item yielded); in particular not before one is.
C14_HeldBackUntilRetirement ==
  \A s \in 1..Len(iterators) :
     (/\ inputConcurrency # Absent
      /\ s > inputConcurrency
      /\ (Tapped(s) \/ ItemsOf(s) \cap Range(out) # {}))
        => Cardinality({t \in 1..(s - 1) : Retired(t)}) >= s - inputConcurrency

\* C14 witness: tap limit 2, the third source was tapped and one of its items
\* was yielded while the second source is still being pulled; the first source
\* is retired.
C14_Witness ==
  /\ inputConcurrency = 2
  /\ Len(iterators) = 3
  /\ ItemsOf(3) \cap Range(out) # {}
  /\ Retired(1)
  /\ rpc[2] \in {"pulling", "publishing"}
  /\ iterators[1] > 0

\* C15: a retirement that happens while the intake loop holds a source back
\* releases the intake loop, so the held-back source gets tapped whatever the
\* other sources do afterwards.  The intake loop is released by nothing but a
\* retirement, so the claim holds exactly if the intake loop is never left
\* suspended while fewer than K tapped sources are unretired.
C15_RetirementReleasesIntake ==
  ipc = "wait" => Cardinality(Unretired) >= inputConcurrency

\* C16: for finite sources, every tap limit and every buffer limit, the
\* multiplexer yields only items of the sources, each at most once, and when
\* its output ends, or nothing more can happen, every item of every source has
\* been yielded exactly once.
C16_ExactlyTheUnion ==
  /\ \A i, j \in DOMAIN out : i # j => out[i] # out[j]
  /\ Range(out) \subseteq AllItems
  /\ gpc = "done" => Range(out) = AllItems
  /\ (~ENABLED NextConcat) => Range(out) = AllItems

\* C16 witness: the concurrent multiplexer with tap limit 2 ended after
\* yielding four items of three sources, not in the order of the sources.
C16_Witness ==
  /\ gpc = "done"
  /\ inputConcurrency = 2
  /\ ~Sequential(inputConcurrency, bufferCapacity)
  /\ Len(iterators) = 3
  /\ Len(out) = 4
  /\ \E i, j \in DOMAIN out : i < j /\ out[i] > out[j]

\* C17: with a finite outer sequence and finite sources the consumer is never
\* left waiting for a value that will not come: once the last item has been
\* yielded, the intake loop has ended and every source has reported
\* exhaustion, the output loop is not suspended in consume().
C17_NeverLeftWaiting ==
  ~(/\ gpc = "consuming"
    /\ cstate[gcur] = "waiting"
    /\ ipc = "done"
    /\ \A s \in 1..Len(iterators) : rpc[s] = "done"
    /\ out # <<>>
    /\ Range(out) = AllItems)

\* C18: with the tap limit omitted or 1, whatever the buffer limit, the items
\* are yielded in strict concatenation order (all of source 1 in its order,
\* then all of source 2, ...), and an output that ends has yielded all of them.
C18_StrictConcatenation ==
  inputConcurrency \in {Absent, 1} =>
     /\ \A i \in DOMAIN out : out[i] = i
     /\ gpc = "done" => Len(out) = Cardinality(AllItems)

\* C18 witness: tap limit 1 with a larger buffer limit (the channel-based
\* multiplexer), three sources with at least four items, all yielded, and the
\* output ended.
C18_Witness ==
  /\ inputConcurrency = 1
  /\ bufferCapacity > 1
  /\ Len(iterators) = 3
  /\ Len(out) >= 4
  /\ gpc = "done"

\* C19: with tap limit Infinity and buffer limit Infinity a single source is
\* passed through: its items are yielded in its order, an output that ends has
\* yielded all of them, and the output does end once the source has: the
\* output loop is not left suspended in consume() after the source reported
\* exhaustion and its last item was yielded.
C19_PassThrough ==
  (inputConcurrency = Infinity /\ bufferCapacity = Infinity /\ Len(iterators) = 1) =>
     /\ \A i \in DOMAIN out : out[i] = i
     /\ gpc = "done" => Len(out) = iterators[1]
     /\ ~(/\ rpc[1] = "done"
          /\ inputsExhausted
          /\ Len(out) = iterators[1]
          /\ Len(out) > 0
          /\ gpc = "consuming"
          /\ cstate[gcur] = "waiting")

(* ======================= claims about dispatch ======================= *)

\* C20: for every concurrency limit the router yields the source items in
\* source order, each at most once and unmodified: an item yielded later comes
\* later in the source, and the value yielded for it is the item itself.
C20_EmitsInSourceOrder ==
  /\ \A i, j \in DOMAIN out : i < j => out[i] < out[j]
  /\ \A i \in DOMAIN out : value[out[i]] = source[out[i]]

\* a write of the part of p is suspended on the full channel of branch b
Blocked(p, b) == p \in Range(bwait[b])

\* a branch sub-pipeline or the splitter has failed
BranchFailed == \E b \in Branches : bpc[b] = "failed"
SplitterFailed == \E p \in Subs : dpc[p] = "failed"

\* the downstream consumer has been given item i and has asked for the next
ConsumedDownstream(i) ==
  /\ i \in Range(out)
  /\ ~(gpc = "yielded" /\ out[Len(out)] = i)

\* C21: for any router concurrency every branch receives only parts the
\* splitter produced for it, each once and in source order, and when the
\* router's output has completed it has received the part of every item that
\* has one for it.
C21_BranchGetsItsPartsInOrder ==
  \A b \in Branches :
     /\ \A i \in DOMAIN received[b] : b \in Parts(received[b][i])
     /\ \A i, j \in DOMAIN received[b] : i < j => received[b][i] < received[b][j]
     /\ fin = "completed" => received[b] = PartsFor(b)

\* C22: an item is emitted only after every write of its parts was accepted,
\* and while a write of an item is suspended on a full branch channel neither
\* that item nor any later item has been emitted.
C22_NotPastABlockedItem ==
  /\ \A p \in Range(out) : dpc[p] = "done" /\ Accepted(p)
  /\ \A p \in Subs, b \in Branches :
        Blocked(p, b) => \A q \in Range(out) : q < p

C24_BranchFailureRejects ==
  (BranchFailed /\ ~SplitterFailed) =>
     /\ fin # "completed"
     /\ ~ENABLED NextDispatch => fin = "rejected"

\* C25: with router concurrency 1 (and a splitter that does not fail) a branch
\* starts on the part of item i + 1 only after the downstream consumer has
\* finished consuming item i.
C25_DownstreamThrottlesBranches ==
  (bufferCapacity = 1 /\ ~SplitterFailed) =>
     \A b \in Branches : \A k \in DOMAIN received[b] :
        received[b][k] > 1 => ConsumedDownstream(received[b][k] - 1)

(* ======================= more claims about map ======================= *)

\* C28: with concurrency 1 (or none given) map yields f(item) for the source
\* items in source order, one output per item once it has run to its end, and
\* never has more than one invocation of f in progress.
C28_SequentialInOrder ==
  bufferCapacity = 1 =>
     /\ \A i \in DOMAIN out : out[i] = i /\ value[out[i]] = F(source[i])
     /\ Cardinality(InProgress) <= 1
     /\ gpc = "done" => Len(out) = Len(source)

\* C28 witness: a source of three items mapped sequentially to its end.
C28_Witness ==
  /\ bufferCapacity = 1
  /\ gpc = "done"
  /\ Len(source) = 3
  /\ Len(out) = 3

\* C29 as stated: while the consumer holds a result and does not ask for the
\* next one, the number of items pulled from the source does not change.
C29_NoPullAfterLastReceive ==
  [][(gpc = "yielded" /\ gpc' = "yielded") => pidx' = pidx]_vars

\* C29, amended: the pump stops pulling once it is suspended behind the limit.
\* A pump that is suspended and was not notified has N submissions in flight
\* unless a transform failed, and while the consumer does not ask for another
\* result it stays suspended and pulls nothing.
C29_SuspendedPumpPullsNothing ==
  /\ []((ppc = "waiting" /\ PUMP \notin woken /\ Failed = {})
          => Cardinality(producing) >= bufferCapacity)
  /\ [][(gpc = "yielded" /\ gpc' = "yielded" /\ ppc = "waiting" /\ PUMP \notin woken)
          => (pidx' = pidx /\ ppc' = "waiting" /\ PUMP \notin woken')]_vars

\* C29 witness: the consumer holds a result, the pump is suspended with an item
\* pulled ahead, and every submission in flight has settled into the buffer.
C29_Witness ==
  /\ gpc = "yielded"
  /\ ppc = "waiting"
  /\ PUMP \notin woken
  /\ Len(out) = 1
  /\ Size(buffer) = bufferCapacity

\* source items whose result was taken out of the channel by the output loop,
\* or yielded by the sequential path
Received == {p \in Subs : pstate[p] = "delivered"}

C26_TransformPairsInOrder ==
  (~isDone /\ ~readError) =>
     /\ \A k \in DOMAIN tret : tret[k] = k
     /\ \A k \in DOMAIN out : out[k] = k
     /\ Len(out) = Len(tret) + (IF tpc = "next" /\ gpc = "yielded" THEN 1 ELSE 0)

\* C26 witness: three transform() calls have returned, each with the output
\* for its own value, and the caller is ready for the next call.
C26_Witness ==
  /\ ~isDone
  /\ ~readError
  /\ tret = <<1, 2, 3>>
  /\ tpc = "idle"
  /\ Len(delivered) = 3

\* C27: start() resolves (the iterator it drains reports done) only after
\* end() was called, and its result then holds the output for every value
\* written before end(), each exactly once.
C27_StartCollectsEverything ==
  (gpc = "done" /\ ~readError) =>
     /\ isDone
     /\ \A p \in published : Count(out, p) = 1
     /\ Len(out) = Cardinality(published)

(* ======================= more claims about the channel ======================= *)

\* C33: the ready buffer and the set of waiting consumers are never both
\* non-empty; a consume call made while the ready buffer is non-empty is
\* resolved at once with the oldest buffered submission and registers no
\* waiting consumer, and a consume call registers a waiting consumer only when
\* the ready buffer is empty.
C33_BufferOrWaitingConsumers ==
  /\ [](buffer = <<>> \/ consuming = <<>>)
  /\ [][\A c \in Conss :
          (cstate[c] = "idle" /\ cstate'[c] # "idle") =>
             IF buffer # <<>>
             THEN /\ cstate'[c] = "resolved"
                  /\ cgot'[c] = Head(buffer)
                  /\ buffer' = Tail(buffer)
                  /\ consuming' = consuming
             ELSE /\ cstate'[c] = "waiting"
                  /\ consuming' = Append(consuming, c)
                  /\ buffer' = buffer]_vars

\* C38: a submitted value equal to undefined is delivered like any other: a
\* submission taken from the ready buffer was returned by a consume call, no
\* consumer waits while values are buffered, and when the value handed to the
\* output sequence settles its race the sequence yields it (at once, or after
\* awaiting it again) instead of going on to the end-of-input test.
C38_UndefinedIsAValue ==
  /\ [](\A p \in Subs : pstate[p] = "delivered" => p \in DeliveredSubs)
  /\ [](buffer # <<>> => consuming = <<>>)
  /\ [][(gpc = "racing" /\ winner = "value" /\ (gpc' # gpc \/ gcur' # gcur)) =>
           \/ out' = Append(out, cgot[gcur])
           \/ gpc' = "yieldWait"]_vars

(* ======================= more claims about concat ======================= *)

\* a tapped source has failed
SourceFailed == FailedSources # {}

\* C31: once a tapped source has failed the multiplexer's output does not
\* complete normally, and the consumer is not left without an answer: when
\* nothing more can happen the output has thrown.
C31_SourceFailureRejects ==
  SourceFailed =>
     /\ gpc # "done"
     /\ ~ENABLED NextConcatFailing => gpc = "threw"

\* C32: when concat is given a tap limit and no buffer limit, the capacity of
\* the shared channel it creates on its first next() is the tap limit.
C32_BufferDefaultsToTapLimit ==
  (gpc # "init" /\ inputConcurrency # Absent /\ outputConcurrency = Absent) =>
     bufferCapacity = inputConcurrency

\* C34: when the value of a submission rejects, the submission leaves the
\* in-flight set, and if a producer is waiting for capacity the one waiting
\* longest is released.
C34_RejectionFreesSlot ==
  [][\A p \in Subs :
       (pstate[p] = "pending" /\ pstate'[p] = "rejected") =>
          /\ p \in producing
          /\ p \notin producing'
          /\ waitingProducers # <<>> =>
                /\ Head(waitingProducers) \in woken'
                /\ waitingProducers' = Tail(waitingProducers)]_vars

(* ======================= claims about filter ======================= *)

\* the items of the source the predicate keeps
Kept == {p \in 1..Len(source) : Test(source[p])}

\* C37: the channel-based filter yields nothing for an excluded item, yields
\* no item twice, and yields every item the predicate keeps: when its output
\* has ended, or nothing more can happen, every kept item has been yielded.
C37_FilterYieldsExactlyTheKept ==
  /\ \A i \in DOMAIN out : out[i] \in Kept
  /\ \A i, j \in DOMAIN out : i # j => out[i] # out[j]
  /\ (gpc = "done" \/ ~ENABLED NextFilter) => Kept \subseteq Range(out)

(* ======================= the pump of map ======================= *)

\* C36: the pump of map(source, f, N) reaches the limit without the consumer:
\* once the pump has received N items and no invocation of f has settled or
\* thrown, exactly N invocations are in progress (N - 1 items after the first
\* were taken while the consumer did nothing but wait for its first value),
\* and as long as nothing failed the pump is suspended only while N
\* submissions are in flight, never for want of a consumer.
C36_PumpReachesTheLimit ==
  /\ (pidx >= bufferCapacity /\ settled = <<>> /\ ~readError) =>
        /\ Cardinality(InProgress) = bufferCapacity
        /\ Len(out) = 0
  /\ (ppc = "waiting" /\ PUMP \notin woken /\ ~readError) =>
        Cardinality(producing) = bufferCapacity

\* C36 witness: limit 2, the consumer still waits for its first value, both
\* invocations are in progress and the pump is suspended with the third item.
C36_Witness ==
  /\ bufferCapacity = 2
  /\ Cardinality(InProgress) = 2
  /\ settled = <<>>
  /\ out = <<>>
  /\ gpc = "racing"
  /\ ppc = "waiting"
  /\ pidx = 3

\* C35: an error recorded while the consumer is between two pulls of the
\* output of map is not lost: when the consumer pulls again, the generator
\* goes into a race that the recorded error has already won (and then throws);
\* it does not end normally and does not wait for a value.
C35_ErrorBetweenPullsSurfaces ==
  [][(gpc = "yielded" /\ gcur > 0 /\ readError /\ gpc' # gpc) =>
        (gpc' = "racing" /\ winner' = "error")]_vars

(* ======================= more claims about dispatch ======================= *)

\* C39: when the splitter has returned the parts of an item, a part is written
\* to its branch (handed to the sub-pipeline, put into the branch buffer, or
\* suspended until the branch has room) exactly when it is present, whether its
\* value is falsy or not; only an absent part is skipped.
C39_FalsyPartsAreWritten ==
  [][\A p \in Subs :
       (dpc[p] = "splitting" /\ dpc'[p] = "writing") =>
          \A b \in Branches :
             b \in Present(p) <=>
                p \in Range(bbuffer'[b]) \cup Range(received'[b]) \cup Range(bwait'[b])]_vars

====
